---- MODULE Spec2Model ----
(***************************************************************************)
(* State-machine model of the two scene scripts of MoodTheramin:           *)
(*   variant 1  src/src/script.js      (rotating sphere / cube / torus)    *)
(*   variant 2  src/unnamed/part_000   (three orbiting point lights)       *)
(*                                                                         *)
(* A behaviour is a sequence of browser tasks (getUserMedia settling,      *)
(* loadedmetadata, resize, slider change, animation frame) interleaved     *)
(* with the passage of time.  A tick is split into its statements so that  *)
(* their order is visible; JavaScript runs a task to completion, so no     *)
(* other handler starts while tickPc # "idle".                             *)
(*                                                                         *)
(* Units: intensities are in tenths, pixel ratios in halves, rotations in  *)
(* hundredths of a radian, elapsed time in whole time units.               *)
(***************************************************************************)
EXTENDS Integers, Sequences, FiniteSets

VARIABLES
    variant,        \* 1 = src/src/script.js, 2 = src/unnamed/part_000
    window,         \* innerWidth, innerHeight, devicePixelRatio
    sizes,          \* the sizes object
    camera,         \* aspect and the aspect its projection matrix was built from
    renderer,       \* logical size, pixel ratio, drawing-buffer size
    intensity,      \* light name -> intensity
    scene,          \* children of the scene, in insertion order
    videoTexture,   \* Null, or the video texture with its dirty flag
    initPc,         \* where init() is: awaitStream, awaitMetadata, done, rejected
    now,            \* clock: elapsed time since the clock was constructed
    elapsedTime,    \* tick's local elapsedTime
    rotation,       \* rotating mesh -> [x, y]   (variant 1)
    lightTime,      \* moving light -> the elapsed time its position was computed from
    tickPc,         \* "idle", or the statement tick executes next
    callsToRun,     \* tick invocations the current task still has to run
    rafPending,     \* animation-frame callbacks for tick that are scheduled
    tickLog,        \* statements executed by the latest tick, in order
    renders,        \* renderer.render calls so far (saturates at MaxRenders)
    taskRenders,    \* renderer.render calls made by the current task
    chainStarts,    \* calls of tick() made by init
    gumRequests,    \* calls of navigator.mediaDevices.getUserMedia
    lastEvent       \* the handler that ran last, with the slider's arguments

vars == <<variant, window, sizes, camera, renderer, intensity, scene, videoTexture,
          initPc, now, elapsedTime, rotation, lightTime, tickPc, callsToRun,
          rafPending, tickLog, renders, taskRenders, chainStarts, gumRequests,
          lastEvent>>

(***************************************************************************)
(* Bounds of the model                                                     *)
(***************************************************************************)
MaxTime == 2
MaxRenders == 2

\* Viewports <<innerWidth, innerHeight, devicePixelRatio>>; the ratios are 1.5 and 3
Viewports == {<<3, 2, 3>>, <<4, 3, 6>>, <<3, 3, 6>>, <<4, 2, 3>>}
RawSliderValues == {-10, 10, 200}    \* below every minimum, in every range, above every maximum

(***************************************************************************)
(* Program constants                                                       *)
(***************************************************************************)
MaxPixelRatio == 4                   \* Math.min(window.devicePixelRatio, 2), in halves
RateY == 10                          \* rotation.y = 0.1 * elapsedTime
RateX == 15                          \* rotation.x = 0.15 * elapsedTime

\* videoTexture before init assigns it (let videoTexture = null), and after
Null == [created |-> FALSE, needsUpdate |-> FALSE]
NewVideoTexture == [created |-> TRUE, needsUpdate |-> FALSE]

Min(a, b) == IF a <= b THEN a ELSE b
Max(a, b) == IF a >= b THEN a ELSE b

RECURSIVE GCD(_, _)
GCD(a, b) == IF b = 0 THEN a ELSE GCD(b, a % b)

\* The quotient w / h as a fraction in lowest terms.
Quotient(w, h) == <<w \div GCD(w, h), h \div GCD(w, h)>>

Variants == {1, 2}

(***************************************************************************)
(* Lights and debug-panel bindings                                         *)
(***************************************************************************)
InitialIntensity(v) ==
    IF v = 1
    THEN [ambientLight |-> 0, directionalLight |-> 0, pointLight |-> 10,
          rectAreaLight |-> 30]
    ELSE [ambientLight |-> 0, movingLight1 |-> 20, movingLight2 |-> 20,
          movingLight3 |-> 20, rectAreaLight |-> 30, directionalLight |-> 5]

\* gui.add(light, "intensity").min(lo).max(hi): light -> [min, max]
Sliders(v) ==
    IF v = 1
    THEN [ambientLight |-> [min |-> 0, max |-> 10],
          directionalLight |-> [min |-> 0, max |-> 10],
          pointLight |-> [min |-> 0, max |-> 50],
          rectAreaLight |-> [min |-> 0, max |-> 100]]
    ELSE [ambientLight |-> [min |-> 0, max |-> 10],
          rectAreaLight |-> [min |-> 0, max |-> 100],
          directionalLight |-> [min |-> 0, max |-> 10]]

Clamp(raw, lo, hi) == Max(lo, Min(hi, raw))

(***************************************************************************)
(* Scene graph                                                             *)
(***************************************************************************)
InitialScene(v) ==
    IF v = 1
    THEN <<"ambientLight", "directionalLight", "pointLight", "rectAreaLight",
           "directionalLightHelper", "pointLightHelper", "rectAreaLightHelper",
           "sphere", "cube", "torus", "plane", "camera">>
    ELSE <<"ambientLight", "movingLight1", "movingLight2", "movingLight3",
           "rectAreaLight", "directionalLight", "rectAreaLightHelper", "plane",
           "camera">>

ScreenCount(s) == Cardinality({i \in DOMAIN s : s[i] = "screen"})

RotatingMeshes(v) == IF v = 1 THEN {"sphere", "cube", "torus"} ELSE {}
MovingLights(v) == IF v = 1 THEN {} ELSE {"movingLight1", "movingLight2", "movingLight3"}

\* A moving light's position is a pure function of the elapsed time it was computed
\* from; before the first tick it is the origin, which is recorded as NotMoved.
NotMoved == -1

(***************************************************************************)
(* Renderer and resize handler                                             *)
(***************************************************************************)
\* renderer.setSize(w, h): the drawing buffer is the logical size times the pixel ratio
SetSize(r, w, h) ==
    [r EXCEPT !.width = w, !.height = h,
              !.canvasWidth = (w * r.pixelRatio) \div 2,
              !.canvasHeight = (h * r.pixelRatio) \div 2]

\* renderer.setPixelRatio(p): stores the ratio and resizes the drawing buffer
SetPixelRatio(r, p) == SetSize([r EXCEPT !.pixelRatio = p], r.width, r.height)

NewRenderer ==
    [width |-> 0, height |-> 0, pixelRatio |-> 2, canvasWidth |-> 0, canvasHeight |-> 0]

\* Mutant: the pixel ratio is not clamped.
ResizeHandlerUnclamped(st, win) ==
    LET sz == [width |-> win.innerWidth, height |-> win.innerHeight]
        cam == [aspect |-> Quotient(sz.width, sz.height),
                projectionAspect |-> Quotient(sz.width, sz.height)]
        ren == SetPixelRatio(SetSize(st.renderer, sz.width, sz.height),
                             win.devicePixelRatio)
    IN  [sizes |-> sz, camera |-> cam, renderer |-> ren]

\* The body of the resize listener, on the part of the state it touches.
ResizeHandler(st, win) ==
    LET sz == [width |-> win.innerWidth, height |-> win.innerHeight]
        cam == [aspect |-> Quotient(sz.width, sz.height),
                projectionAspect |-> Quotient(sz.width, sz.height)]
        ren == SetPixelRatio(SetSize(st.renderer, sz.width, sz.height),
                             Min(win.devicePixelRatio, MaxPixelRatio))
    IN  [sizes |-> sz, camera |-> cam, renderer |-> ren]

Windows ==
    {[innerWidth |-> v[1], innerHeight |-> v[2], devicePixelRatio |-> v[3]] :
        v \in Viewports}

Event(kind, light, value) == [kind |-> kind, light |-> light, value |-> value]

(***************************************************************************)
(* Initial state: the module's top-level code has run, init() has called   *)
(* setupWebcam(), which has called getUserMedia and is awaiting it.        *)
(***************************************************************************)
ModuleLoaded(pc, calls) ==
    /\ variant \in Variants
    /\ window \in Windows
    /\ sizes = [width |-> window.innerWidth, height |-> window.innerHeight]
    /\ camera = [aspect |-> Quotient(sizes.width, sizes.height),
                 projectionAspect |-> Quotient(sizes.width, sizes.height)]
    /\ renderer = SetPixelRatio(SetSize(NewRenderer, sizes.width, sizes.height),
                                Min(window.devicePixelRatio, MaxPixelRatio))
    /\ intensity = InitialIntensity(variant)
    /\ scene = InitialScene(variant)
    /\ videoTexture = Null
    /\ initPc = "awaitStream"
    /\ now = 0
    /\ elapsedTime = 0
    /\ rotation = [m \in RotatingMeshes(variant) |-> [x |-> 0, y |-> 0]]
    /\ lightTime = [l \in MovingLights(variant) |-> NotMoved]
    /\ tickPc = pc
    /\ callsToRun = calls
    /\ rafPending = 0
    /\ tickLog = <<>>
    /\ renders = 0
    /\ taskRenders = 0
    /\ chainStarts = 0
    /\ gumRequests = 1
    /\ lastEvent = Event("load", "none", 0)

\* Mutant: tick() is called at the end of the module instead of inside init().
InitTickAtLoad == ModuleLoaded("clock", 1)

\* tick is only called from init(), after the await
Init == ModuleLoaded("idle", 0)

(***************************************************************************)
(* Webcam setup: setupWebcam() and init()                                  *)
(***************************************************************************)
\* getUserMedia resolves: setupWebcam sets video.srcObject and awaits loadedmetadata.
GetUserMediaResolved ==
    /\ tickPc = "idle"
    /\ initPc = "awaitStream"
    /\ initPc' = "awaitMetadata"
    /\ lastEvent' = Event("stream", "none", 0)
    /\ UNCHANGED <<variant, window, sizes, camera, renderer, intensity, scene,
                   videoTexture, now, elapsedTime, rotation, lightTime, tickPc,
                   callsToRun, rafPending, tickLog, renders, taskRenders,
                   chainStarts, gumRequests>>

\* Mutant: init catches the rejection and starts the loop without the screen.
GetUserMediaRejectedThenTick ==
    /\ tickPc = "idle"
    /\ initPc = "awaitStream"
    /\ initPc' = "rejected"
    /\ tickPc' = "clock"
    /\ callsToRun' = 1
    /\ taskRenders' = 0
    /\ lastEvent' = Event("denied", "none", 0)
    /\ UNCHANGED <<variant, window, sizes, camera, renderer, intensity, scene,
                   videoTexture, now, elapsedTime, rotation, lightTime,
                   rafPending, tickLog, renders, chainStarts, gumRequests>>

\* Mutant: the rejection is answered by asking for the camera again.
GetUserMediaRejectedRetry ==
    /\ tickPc = "idle"
    /\ initPc = "awaitStream"
    /\ gumRequests' = gumRequests + 1
    /\ lastEvent' = Event("denied", "none", 0)
    /\ UNCHANGED <<variant, window, sizes, camera, renderer, intensity, scene,
                   videoTexture, initPc, now, elapsedTime, rotation, lightTime,
                   tickPc, callsToRun, rafPending, tickLog, renders, taskRenders,
                   chainStarts>>

\* getUserMedia rejects (denied, no device): the await in setupWebcam throws, the
\* promise of setupWebcam rejects, the await in init throws, init's promise rejects
\* and nothing catches it.
GetUserMediaRejected ==
    /\ tickPc = "idle"
    /\ initPc = "awaitStream"
    /\ initPc' = "rejected"
    /\ lastEvent' = Event("denied", "none", 0)
    /\ UNCHANGED <<variant, window, sizes, camera, renderer, intensity, scene,
                   videoTexture, now, elapsedTime, rotation, lightTime, tickPc,
                   callsToRun, rafPending, tickLog, renders, taskRenders,
                   chainStarts, gumRequests>>

\* The rest of init() once setupWebcam() has returned the video: the texture, the
\* screen mesh, and the first call of tick().
InitContinuation ==
    /\ initPc' = "done"
    /\ videoTexture' = NewVideoTexture
    /\ scene' = Append(scene, "screen")
    /\ chainStarts' = chainStarts + 1
    /\ callsToRun' = 1
    /\ tickPc' = "clock"
    /\ taskRenders' = 0

\* Mutant: every loadedmetadata event runs the rest of init again.
LoadedMetadataRestarts ==
    /\ tickPc = "idle"
    /\ initPc \in {"awaitMetadata", "done"}
    /\ lastEvent' = Event("loadedmetadata", "none", 0)
    /\ InitContinuation
    /\ UNCHANGED <<variant, window, sizes, camera, renderer, intensity, now,
                   elapsedTime, rotation, lightTime, rafPending, tickLog, renders,
                   gumRequests>>

\* video.onloadedmetadata fires.  The first time it resolves the promise setupWebcam
\* awaits, and setupWebcam and init continue in the same task; resolving a settled
\* promise again does nothing.
LoadedMetadata ==
    /\ tickPc = "idle"
    /\ initPc \in {"awaitMetadata", "done"}
    /\ lastEvent' = Event("loadedmetadata", "none", 0)
    /\ IF initPc = "awaitMetadata"
       THEN InitContinuation
       ELSE UNCHANGED <<initPc, videoTexture, scene, chainStarts, callsToRun, tickPc,
                        taskRenders>>
    /\ UNCHANGED <<variant, window, sizes, camera, renderer, intensity, now,
                   elapsedTime, rotation, lightTime, rafPending, tickLog, renders,
                   gumRequests>>

(***************************************************************************)
(* Events                                                                  *)
(***************************************************************************)
\* window "resize" with a new viewport and device pixel ratio
Resize(win) ==
    /\ tickPc = "idle"
    /\ window' = win
    /\ LET st == ResizeHandler([sizes |-> sizes, camera |-> camera,
                                renderer |-> renderer], win)
       IN  /\ sizes' = st.sizes
           /\ camera' = st.camera
           /\ renderer' = st.renderer
    /\ lastEvent' = Event("resize", "none", 0)
    /\ UNCHANGED <<variant, intensity, scene, videoTexture, initPc, now, elapsedTime,
                   rotation, lightTime, tickPc, callsToRun, rafPending, tickLog,
                   renders, taskRenders, chainStarts, gumRequests>>

\* Mutant: every controller is bound to ambientLight.
SliderWriteAmbient(lights, light, raw) ==
    [lights EXCEPT !["ambientLight"] =
        Clamp(raw, Sliders(variant)[light].min, Sliders(variant)[light].max)]

\* The controller bound to light writes the clamped input to light.intensity.
SliderWrite(lights, light, raw) ==
    [lights EXCEPT ![light] =
        Clamp(raw, Sliders(variant)[light].min, Sliders(variant)[light].max)]

SliderChange(light, raw) ==
    /\ tickPc = "idle"
    /\ light \in DOMAIN Sliders(variant)
    /\ intensity' = SliderWrite(intensity, light, raw)
    /\ lastEvent' = Event("slider", light, raw)
    /\ UNCHANGED <<variant, window, sizes, camera, renderer, scene, videoTexture,
                   initPc, now, elapsedTime, rotation, lightTime, tickPc, callsToRun,
                   rafPending, tickLog, renders, taskRenders, chainStarts,
                   gumRequests>>

\* The clock runs on its own, also while a handler executes.
AdvanceClock ==
    /\ now < MaxTime
    /\ now' = now + 1
    /\ UNCHANGED <<variant, window, sizes, camera, renderer, intensity, scene,
                   videoTexture, initPc, elapsedTime, rotation, lightTime, tickPc,
                   callsToRun, rafPending, tickLog, renders, taskRenders,
                   chainStarts, gumRequests, lastEvent>>

\* A display refresh: the browser runs the animation-frame callbacks scheduled so far.
AnimationFrame ==
    /\ tickPc = "idle"
    /\ rafPending > 0
    /\ callsToRun' = rafPending
    /\ rafPending' = 0
    /\ tickPc' = "clock"
    /\ taskRenders' = 0
    /\ lastEvent' = Event("frame", "none", 0)
    /\ UNCHANGED <<variant, window, sizes, camera, renderer, intensity, scene,
                   videoTexture, initPc, now, elapsedTime, rotation, lightTime,
                   tickLog, renders, chainStarts, gumRequests>>

(***************************************************************************)
(* tick, statement by statement                                            *)
(***************************************************************************)
\* Mutant: the texture is marked dirty after the render.
TickOrderDirtyAfterRender(v) ==
    IF v = 1
    THEN <<"clock", "objects", "controls", "render", "texture", "raf">>
    ELSE <<"clock", "lights", "controls", "render", "texture", "raf">>

\* The statements of tick in source order; tickPc names the next one.
TickOrder(v) ==
    IF v = 1
    THEN <<"clock", "objects", "texture", "controls", "render", "raf">>
    ELSE <<"clock", "texture", "lights", "controls", "render", "raf">>

IndexOf(seq, e) == CHOOSE i \in DOMAIN seq : seq[i] = e

\* The statement after pc; after the last one tick returns ("return").
After(v, pc) ==
    LET i == IndexOf(TickOrder(v), pc)
    IN  IF i < Len(TickOrder(v)) THEN TickOrder(v)[i + 1] ELSE "return"

\* const elapsedTime = clock.getElapsedTime()
TickReadClock ==
    /\ tickPc = "clock"
    /\ elapsedTime' = now
    /\ tickLog' = <<"elapsedTime">>
    /\ tickPc' = After(variant, "clock")
    /\ UNCHANGED <<variant, window, sizes, camera, renderer, intensity, scene,
                   videoTexture, initPc, now, rotation, lightTime, callsToRun,
                   rafPending, renders, taskRenders, chainStarts, gumRequests,
                   lastEvent>>

\* Mutant: torus.rotation.x is computed with the rate of rotation.y.
RotateObjectsTorusSlip(rot, t) ==
    [m \in DOMAIN rot |->
        [x |-> IF m = "torus" THEN RateY * t ELSE RateX * t, y |-> RateY * t]]

\* sphere / cube / torus .rotation.y = 0.1 * elapsedTime, .rotation.x = 0.15 * elapsedTime
RotateObjects(rot, t) ==
    [m \in DOMAIN rot |-> [x |-> RateX * t, y |-> RateY * t]]

TickUpdateObjects ==
    /\ tickPc = "objects"
    /\ rotation' = RotateObjects(rotation, elapsedTime)
    /\ tickLog' = Append(tickLog, "transforms")
    /\ tickPc' = After(variant, "objects")
    /\ UNCHANGED <<variant, window, sizes, camera, renderer, intensity, scene,
                   videoTexture, initPc, now, elapsedTime, lightTime, callsToRun,
                   rafPending, renders, taskRenders, chainStarts, gumRequests,
                   lastEvent>>

\* movingLight1..3 .position = functions of elapsedTime
TickUpdateLights ==
    /\ tickPc = "lights"
    /\ lightTime' = [l \in DOMAIN lightTime |-> elapsedTime]
    /\ tickLog' = Append(tickLog, "transforms")
    /\ tickPc' = After(variant, "lights")
    /\ UNCHANGED <<variant, window, sizes, camera, renderer, intensity, scene,
                   videoTexture, initPc, now, elapsedTime, rotation, callsToRun,
                   rafPending, renders, taskRenders, chainStarts, gumRequests,
                   lastEvent>>

\* if (videoTexture) { videoTexture.needsUpdate = true; }
TickUpdateTexture ==
    /\ tickPc = "texture"
    /\ IF videoTexture # Null
       THEN /\ videoTexture' = [videoTexture EXCEPT !.needsUpdate = TRUE]
            /\ tickLog' = Append(tickLog, "textureDirty")
       ELSE UNCHANGED <<videoTexture, tickLog>>
    /\ tickPc' = After(variant, "texture")
    /\ UNCHANGED <<variant, window, sizes, camera, renderer, intensity, scene,
                   initPc, now, elapsedTime, rotation, lightTime, callsToRun,
                   rafPending, renders, taskRenders, chainStarts, gumRequests,
                   lastEvent>>

\* controls.update(): with no pointer input the damped controls leave the camera alone
TickControls ==
    /\ tickPc = "controls"
    /\ tickLog' = Append(tickLog, "controls")
    /\ tickPc' = After(variant, "controls")
    /\ UNCHANGED <<variant, window, sizes, camera, renderer, intensity, scene,
                   videoTexture, initPc, now, elapsedTime, rotation, lightTime,
                   callsToRun, rafPending, renders, taskRenders, chainStarts,
                   gumRequests, lastEvent>>

\* renderer.render(scene, camera): a dirty video texture is uploaded, which clears the flag
TickRender ==
    /\ tickPc = "render"
    /\ renders' = Min(renders + 1, MaxRenders)
    /\ taskRenders' = taskRenders + 1
    /\ videoTexture' = IF videoTexture = Null THEN Null
                       ELSE [videoTexture EXCEPT !.needsUpdate = FALSE]
    /\ tickLog' = Append(tickLog, "render")
    /\ tickPc' = After(variant, "render")
    /\ UNCHANGED <<variant, window, sizes, camera, renderer, intensity, scene,
                   initPc, now, elapsedTime, rotation, lightTime, callsToRun,
                   rafPending, chainStarts, gumRequests, lastEvent>>

\* tick's last statement schedules n callbacks, then tick returns: the task runs its
\* next callback, or ends.
RescheduleBy(n) ==
    /\ tickPc = "raf"
    /\ rafPending' = rafPending + n
    /\ tickLog' = Append(tickLog, "requestAnimationFrame")
    /\ callsToRun' = callsToRun - 1
    /\ tickPc' = IF callsToRun' > 0 THEN "clock" ELSE "idle"
    /\ UNCHANGED <<variant, window, sizes, camera, renderer, intensity, scene,
                   videoTexture, initPc, now, elapsedTime, rotation, lightTime,
                   renders, taskRenders, chainStarts, gumRequests, lastEvent>>

\* Mutants: tick does not reschedule itself; tick reschedules itself twice.
TickRescheduleNever == RescheduleBy(0)
TickRescheduleTwice == RescheduleBy(2)

\* window.requestAnimationFrame(tick)
TickReschedule == RescheduleBy(1)

TickStep ==
    \/ TickReadClock
    \/ TickUpdateObjects
    \/ TickUpdateLights
    \/ TickUpdateTexture
    \/ TickControls
    \/ TickRender
    \/ TickReschedule

Next ==
    \/ GetUserMediaResolved
    \/ GetUserMediaRejected
    \/ LoadedMetadata
    \/ \E win \in Windows : Resize(win)
    \/ \E light \in DOMAIN Sliders(variant), raw \in RawSliderValues :
           SliderChange(light, raw)
    \/ AdvanceClock
    \/ AnimationFrame
    \/ TickStep

Spec == Init /\ [][Next]_vars

\* The event loop runs a started task to completion, and the display keeps refreshing.
FairSpec == Spec /\ WF_vars(TickStep) /\ WF_vars(AnimationFrame)

(***************************************************************************)
(* Properties                                                              *)
(***************************************************************************)
IsPrefix(p, q) == Len(p) <= Len(q) /\ \A i \in DOMAIN p : p[i] = q[i]

Running == initPc = "done"

\* C1: the scene holds no screen mesh until webcam setup has resolved, and exactly
\* one screen mesh in every state after it has; nothing adds a second or removes it.
C1_OneScreenAfterSetup ==
    /\ ~Running => ScreenCount(scene) = 0
    /\ Running => ScreenCount(scene) = 1

\* a further loadedmetadata event arrived after the loop had rendered MaxRenders times
C1_Witness ==
    /\ Running
    /\ ScreenCount(scene) = 1
    /\ renders = MaxRenders
    /\ tickPc = "idle"
    /\ lastEvent.kind = "loadedmetadata"

\* C2: no tick executes, none is scheduled and no render is issued while the video
\* texture is null or the screen mesh is absent, whatever resize events and slider
\* changes occur before the capture resolves.
C2_NoTickBeforeScreen ==
    (videoTexture = Null \/ ScreenCount(scene) = 0) =>
        /\ tickPc = "idle"
        /\ tickLog = <<>>
        /\ renders = 0
        /\ rafPending = 0
        /\ callsToRun = 0

\* the stream was granted, then the window was resized while metadata is awaited
C2_Witness ==
    /\ initPc = "awaitMetadata"
    /\ videoTexture = Null
    /\ lastEvent.kind = "resize"
    /\ intensity # InitialIntensity(variant)
    /\ now = MaxTime

\* C3 (as amended): after getUserMedia rejects nothing is ever rendered: no tick runs
\* or is scheduled, no render has been issued, and the screen mesh is absent.
C3_NoRenderAfterRejection ==
    initPc = "rejected" =>
        /\ renders = 0
        /\ tickPc = "idle"
        /\ rafPending = 0
        /\ tickLog = <<>>
        /\ ScreenCount(scene) = 0

\* rejected, and events kept arriving afterwards
C3_Witness ==
    /\ initPc = "rejected"
    /\ lastEvent.kind = "slider"
    /\ now = MaxTime
    /\ renders = 0

\* C3 (as stated): after the rejection, renders of the scene still occur, with the
\* screen mesh absent.
C3_Original ==
    (initPc = "rejected") ~> (renders > 0 /\ ScreenCount(scene) = 0)

\* C4: once getUserMedia has rejected, init never completes: in every later state
\* the video texture is null, the scene is the initial scene (no screen, no
\* fallback), and getUserMedia has been called exactly once.
C4_RejectionIsFinal ==
    /\ [](gumRequests = 1)
    /\ [](initPc = "rejected" =>
            /\ videoTexture = Null
            /\ scene = InitialScene(variant)
            /\ ScreenCount(scene) = 0)
    /\ [][initPc = "rejected" => initPc' = "rejected"]_vars

C4_Witness ==
    /\ initPc = "rejected"
    /\ lastEvent.kind = "resize"
    /\ now = MaxTime
    /\ gumRequests = 1
    /\ scene = InitialScene(variant)

\* C5: after a resize event with viewport (W, H) and device pixel ratio d the camera
\* aspect is W/H, the render surface is (W, H) and the pixel ratio is min(d, 2);
\* handling the same resize twice gives the state handling it once gives; the pixel
\* ratio never exceeds 2.
C5_Resize ==
    LET st == [sizes |-> sizes, camera |-> camera, renderer |-> renderer]
    IN  /\ renderer.pixelRatio <= MaxPixelRatio
        /\ lastEvent.kind = "resize" =>
              /\ camera.aspect = Quotient(window.innerWidth, window.innerHeight)
              /\ camera.projectionAspect = camera.aspect
              /\ renderer.width = window.innerWidth
              /\ renderer.height = window.innerHeight
              /\ renderer.pixelRatio = Min(window.devicePixelRatio, MaxPixelRatio)
              /\ renderer.canvasWidth = (window.innerWidth * renderer.pixelRatio) \div 2
              /\ renderer.canvasHeight = (window.innerHeight * renderer.pixelRatio) \div 2
        /\ \A win \in Windows :
              ResizeHandler(ResizeHandler(st, win), win) = ResizeHandler(st, win)

\* a resize while the loop runs, to a device pixel ratio above the cap
C5_Witness ==
    /\ lastEvent.kind = "resize"
    /\ Running
    /\ renders > 0
    /\ window.devicePixelRatio > MaxPixelRatio
    /\ renderer.pixelRatio = MaxPixelRatio
    /\ camera.aspect = <<4, 3>>

\* The order of a tick's steps as the specification lists them.
ClaimedOrder ==
    <<"elapsedTime", "transforms", "textureDirty", "controls", "render",
      "requestAnimationFrame">>

\* The order in variant 2: the texture is marked dirty before the lights are moved.
Variant2Order ==
    <<"elapsedTime", "textureDirty", "transforms", "controls", "render",
      "requestAnimationFrame">>

TransformsFollow(t) ==
    /\ \A m \in DOMAIN rotation : rotation[m] = [x |-> RateX * t, y |-> RateY * t]
    /\ \A l \in DOMAIN lightTime : lightTime[l] = t

\* C6 (as amended): a tick first reads the elapsed time and ends with the controls
\* update, exactly one render and the reschedule, in this order; in variant 1 the
\* transforms are updated before the texture is marked dirty, in variant 2 after;
\* in both the render of a tick finds the texture dirty and the transforms computed
\* from the elapsed time that tick read.
C6_TickOrder ==
    /\ variant = 1 => IsPrefix(tickLog, ClaimedOrder)
    /\ variant = 2 => IsPrefix(tickLog, Variant2Order)
    /\ (tickPc = "idle" /\ renders > 0) => Len(tickLog) = Len(ClaimedOrder)
    /\ tickPc = "render" =>
          /\ videoTexture.needsUpdate
          /\ TransformsFollow(elapsedTime)

\* a completed tick of variant 2, after MaxRenders renders
C6_Witness ==
    /\ variant = 2
    /\ tickPc = "idle"
    /\ tickLog = Variant2Order
    /\ renders = MaxRenders
    /\ lightTime["movingLight3"] = MaxTime

\* C6 (as stated): in both variants the steps of a tick are in the listed order.
C6_Original == IsPrefix(tickLog, ClaimedOrder)

\* C7: in variant 1, once a tick has updated the objects from the elapsed time t it
\* read, sphere, cube and torus have rotation.y = 0.1 t and rotation.x = 0.15 t; the
\* three rotations are identical in every state and zero before the first tick; only
\* that step of tick changes them.
C7_Rotations ==
    /\ [](variant = 1 =>
            /\ \A m \in DOMAIN rotation : rotation[m] = rotation["sphere"]
            /\ DOMAIN rotation = {"sphere", "cube", "torus"}
            /\ (\E i \in DOMAIN tickLog : tickLog[i] = "transforms") =>
                   \A m \in DOMAIN rotation :
                       /\ rotation[m].y = RateY * elapsedTime
                       /\ rotation[m].x = RateX * elapsedTime
            /\ tickLog = <<>> =>
                   \A m \in DOMAIN rotation : rotation[m] = [x |-> 0, y |-> 0])
    /\ [][rotation' # rotation => tickPc = "objects" /\ tickPc' # "objects"]_vars

\* rotated at the latest time, and a slider changed afterwards
C7_Witness ==
    /\ variant = 1
    /\ MaxTime > 0
    /\ rotation["torus"] = [x |-> RateX * MaxTime, y |-> RateY * MaxTime]
    /\ tickPc = "idle"
    /\ lastEvent.kind = "slider"

\* A step that is a slider change (the clock alone advances without an event).
SliderStep == lastEvent'.kind = "slider" /\ now' = now

\* C8: a slider change to a value within the slider's range sets the intensity of the
\* light bound to it to that value; a slider change alters nothing but that light's
\* intensity; no other step alters any intensity.
C8_SliderWritesItsLight ==
    [][/\ SliderStep =>
            LET light == lastEvent'.light
                value == lastEvent'.value
                range == Sliders(variant)[light]
            IN  /\ light \in DOMAIN Sliders(variant)
                /\ \A l \in DOMAIN intensity \ {light} : intensity'[l] = intensity[l]
                /\ DOMAIN intensity' = DOMAIN intensity
                /\ (range.min <= value /\ value <= range.max) =>
                       intensity'[light] = value
                /\ range.min <= intensity'[light] /\ intensity'[light] <= range.max
                /\ UNCHANGED <<variant, window, sizes, camera, renderer, scene,
                               videoTexture, initPc, now, elapsedTime, rotation,
                               lightTime, tickPc, callsToRun, rafPending, tickLog,
                               renders, taskRenders, chainStarts, gumRequests>>
       /\ ~SliderStep => intensity' = intensity
      ]_vars

\* the rect-area slider was set to 1.0 while the loop runs
C8_Witness ==
    /\ lastEvent = Event("slider", "rectAreaLight", 10)
    /\ intensity["rectAreaLight"] = 10
    /\ intensity["ambientLight"] = 10
    /\ Running
    /\ renders > 0

\* C9: a running loop always has its next tick scheduled when no tick is executing,
\* and, the display refreshing fairly, it keeps rendering forever: from every state
\* of a running loop a tick reaches its render, and every such tick returns, after
\* which the loop is still running.
C9_LoopNeverStops ==
    /\ []((Running /\ tickPc = "idle") => rafPending > 0)
    /\ [](Running => [](Running))
    /\ Running ~> (tickPc = "render")
    /\ (tickPc = "render") ~> (tickPc = "idle" /\ rafPending > 0)

C9_Witness ==
    /\ Running
    /\ tickPc = "idle"
    /\ rafPending = 1
    /\ renders = MaxRenders
    /\ now = MaxTime

\* C10: at most one animation-frame callback for tick is pending, none while a tick
\* executes; init starts the chain at most once; a task renders at most once.
C10_SingleTickChain ==
    /\ rafPending <= 1
    /\ callsToRun <= 1
    /\ tickPc # "idle" => rafPending = 0 /\ callsToRun = 1
    /\ chainStarts <= 1
    /\ Running <=> chainStarts = 1
    /\ taskRenders <= 1

\* a tick is pending after resize, slider and a repeated loadedmetadata event
C10_Witness ==
    /\ rafPending = 1
    /\ chainStarts = 1
    /\ renders = MaxRenders
    /\ lastEvent.kind = "loadedmetadata"
    /\ intensity # InitialIntensity(variant)

====
